---- MODULE Spec2Model ----
(***************************************************************************)
(* vfsgen: Translate walks an input http.FileSystem, writes a Go source    *)
(* file holding every directory and gzip-compressed file as a static map   *)
(* (assetsFS), and the generated file serves Open/Read/Readdir/Stat/Seek/  *)
(* Close over that map.  Source: src/generate.go.                          *)
(*                                                                         *)
(* Paths are sequences of names (<<>> is "/"), names are 1, 2, ... and      *)
(* the name of the root is 0.  Bytes and characters are their codes.       *)
(***************************************************************************)
EXTENDS Integers, Sequences, FiniteSets, TLC

VARIABLES
    cfg,        \* *Config: package and build tags
    tree,       \* c.Input, the source filesystem: path -> node
    pc,         \* position of Translate / of the generated program
    toc,        \* []pathAsset filled by findFiles
    err,        \* the error Translate returns ("nil" for none)
    faults,     \* I/O failures that have happened so far
    outFile,    \* the file at c.Output: [exists, items]
    assetsFS,   \* the generated program's static map: path -> record
    handles,    \* open http.File handles of the generated program
    res         \* outcome of the last run-time call

vars == <<cfg, tree, pc, toc, err, faults, outFile, assetsFS, handles, res>>

----------------------------------------------------------------------------
(* Bounds of the model *)

MaxSize == 3         \* size of the source tree: its entries besides the root
                     \* plus the bytes of its files
MaxFaults == 1       \* I/O failures injected into one walk or one emission
MaxHandles == 2      \* handles open at once
MaxRead == 2         \* len(p) of a Read call

SampleBytes == {92}              \* a backslash
ModTimes == {2020, 10000}        \* years; MarshalText fails outside 0..9999

----------------------------------------------------------------------------
(* The source filesystem (c.Input) *)

Root == <<>>
Join(dirname, name) == Append(dirname, name)
Base(path) == IF path = Root THEN 0 ELSE path[Len(path)]
Parent(path) == SubSeq(path, 1, Len(path) - 1)

DirNode(mt) == [isDir |-> TRUE, content |-> <<>>, modTime |-> mt]
FileNode(c, mt) == [isDir |-> FALSE, content |-> c, modTime |-> mt]

Dirs(t) == {p \in DOMAIN t : t[p].isDir}
Files(t) == {p \in DOMAIN t : ~t[p].isDir}
Children(t, d) == {p \in DOMAIN t : p # Root /\ Parent(p) = d}

\* t with one more entry (an empty file or an empty directory) or one more
\* byte in a file.  The entries of a directory of k entries are named 1..k
\* (any other naming is this one up to renaming), and every entry carries the
\* modification time of the root.
Grow(t) ==
    UNION {{t @@ (Join(d, Cardinality(Children(t, d)) + 1) :> nd) :
               nd \in {DirNode(t[Root].modTime), FileNode(<<>>, t[Root].modTime)}} :
           d \in Dirs(t)}
    \cup {[t EXCEPT ![f].content = Append(@, b)] : f \in Files(t), b \in SampleBytes}

RECURSIVE TreesUpTo(_)
TreesUpTo(n) ==
    IF n = 0 THEN {(Root :> DirNode(mt)) : mt \in ModTimes}
    ELSE LET prev == TreesUpTo(n - 1)
         IN  prev \cup UNION {Grow(t) : t \in prev}

Trees == TreesUpTo(MaxSize)

(* Lexical order of path strings, as sort.Strings compares them *)
RECURSIVE PathLess(_, _)
PathLess(p, q) ==
    IF p = <<>> THEN q # <<>>
    ELSE IF q = <<>> THEN FALSE
    ELSE IF p[1] # q[1] THEN p[1] < q[1]
    ELSE PathLess(Tail(p), Tail(q))

RECURSIVE SortStrings(_)
SortStrings(S) ==
    IF S = {} THEN <<>>
    ELSE LET m == CHOOSE x \in S : \A y \in S \ {x} : PathLess(x, y)
         IN  <<m>> \o SortStrings(S \ {m})

Range(s) == {s[i] : i \in 1..Len(s)}

----------------------------------------------------------------------------
(* findFiles: the walk.  o names the calls that fail during this walk:     *)
(* o.stat (Stat of a path), o.cbList (the callback's readDirPaths of a     *)
(* directory), o.wkList (the walker's own listing of a directory).         *)

WalkOracles(t) ==
    {o \in [stat : SUBSET DOMAIN t, cbList : SUBSET Dirs(t), wkList : SUBSET Dirs(t)] :
        Cardinality(o.stat) + Cardinality(o.cbList) + Cardinality(o.wkList) <= MaxFaults}

NoWalkFaults == [stat |-> {}, cbList |-> {}, wkList |-> {}]

\* readDirPaths: the sorted joined paths of dirname's entries, or an error
readDirPaths(t, o, dirname) ==
    IF dirname \in o.cbList
    THEN [err |-> "list", paths |-> <<>>]
    ELSE [err |-> "nil",
          paths |-> SortStrings({Join(dirname, Base(c)) : c \in Children(t, dirname)})]

DirAsset(path, entries, mt) ==
    [path |-> path, isDir |-> TRUE, name |-> Base(path), entries |-> entries,
     uncompressedSize |-> 0, modTime |-> mt]

FileAsset(path, size, mt) ==
    [path |-> path, isDir |-> FALSE, name |-> Base(path), entries |-> <<>>,
     uncompressedSize |-> size, modTime |-> mt]

\* walkFn(path, fi, err): acc is [err, toc, faults]; failed is err # nil
walkFn(t, o, path, failed, acc) ==
    IF failed
    THEN acc                                   \* log.Printf; return nil
    ELSE IF t[path].isDir
    THEN LET r == readDirPaths(t, o, path)
         IN  IF r.err # "nil"
             THEN [acc EXCEPT !.err = "walk", !.faults = @ \cup {"cbList"}]
             ELSE [acc EXCEPT !.toc =
                       Append(@, DirAsset(path, r.paths, t[path].modTime))]
    ELSE [acc EXCEPT !.toc =
              Append(@, FileAsset(path, Len(t[path].content), t[path].modTime))]

WithFault(acc, f) == [acc EXCEPT !.faults = @ \cup {f}]

\* vfsutil.Walk and its walk, which follow path/filepath.Walk: the callback
\* is called with the error when the stat of an entry fails and when the
\* walker's own listing of a directory fails
RECURSIVE walk(_, _, _, _), walkEntries(_, _, _, _, _)
walk(t, o, path, acc) ==
    LET a == walkFn(t, o, path, FALSE, acc)
    IN  IF a.err # "nil" THEN a
        ELSE IF ~t[path].isDir THEN a
        ELSE IF path \in o.wkList
        THEN walkFn(t, o, path, TRUE, WithFault(a, "wkList"))
        ELSE walkEntries(t, o, SortStrings(Children(t, path)), 1, a)

walkEntries(t, o, names, i, acc) ==
    IF i > Len(names) THEN acc
    ELSE IF names[i] \in o.stat
    THEN walkEntries(t, o, names, i + 1,
                     walkFn(t, o, names[i], TRUE, WithFault(acc, "stat")))
    ELSE LET r == walk(t, o, names[i], acc)
         IN  IF r.err # "nil" THEN r ELSE walkEntries(t, o, names, i + 1, r)

Walk(t, o) ==
    LET acc0 == [err |-> "nil", toc |-> <<>>, faults |-> {}]
    IN  IF Root \in o.stat
        THEN walkFn(t, o, Root, TRUE, WithFault(acc0, "stat"))
        ELSE walk(t, o, Root, acc0)

findFiles(t, o) == Walk(t, o)

----------------------------------------------------------------------------
(* Conversions used by the emitter and undone by the generated program *)

RECURSIVE Sum(_)
Sum(s) == IF s = <<>> THEN 0 ELSE s[1] + Sum(Tail(s))

\* gzip.Writer over one stored block: magic, length, data, checksum, size
Gzip(data) ==
    <<31, 139, Len(data)>> \o data \o <<Sum(data) % 256, Len(data) % 256>>

GzipHeaderOK(c) == Len(c) >= 3 /\ c[1] = 31 /\ c[2] = 139
GzipData(c) == SubSeq(c, 4, 3 + c[3])
GzipTrailerOK(c) ==
    /\ Len(c) = c[3] + 5
    /\ c[Len(c) - 1] = Sum(GzipData(c)) % 256
    /\ c[Len(c)] = Len(GzipData(c)) % 256

HexDigit(n) == IF n < 10 THEN 48 + n ELSE 87 + n
HexValue(ch) == IF ch >= 97 THEN ch - 87 ELSE ch - 48

\* StringWriter.Write: every byte b becomes the four characters \xhh
RECURSIVE StringWriterWrite(_)
StringWriterWrite(p) ==
    IF p = <<>> THEN <<>>
    ELSE <<92, 120, HexDigit(p[1] \div 16), HexDigit(p[1] % 16)>>
             \o StringWriterWrite(Tail(p))

\* the bytes of the Go string literal "lit" in []byte("lit")
RECURSIVE Unquote(_)
Unquote(lit) ==
    IF lit = <<>> THEN <<>>
    ELSE IF lit[1] = 92 /\ Len(lit) >= 4 /\ lit[2] = 120
    THEN <<16 * HexValue(lit[3]) + HexValue(lit[4])>> \o Unquote(SubSeq(lit, 5, Len(lit)))
    ELSE <<lit[1]>> \o Unquote(Tail(lit))

\* time.Time.MarshalText: the year in four digits, an error outside 0..9999
MarshalText(mt) ==
    IF mt < 0 \/ mt > 9999
    THEN [err |-> "marshal", text |-> <<>>]
    ELSE [err |-> "nil",
          text |-> <<mt \div 1000, (mt \div 100) % 10, (mt \div 10) % 10, mt % 10>>]

mustUnmarshalTextTime(text) ==
    1000 * text[1] + 100 * text[2] + 10 * text[3] + text[4]

----------------------------------------------------------------------------
(* Emission: the writes of Translate, writeAssets and writeVFS in order.   *)
(* An item is one Fprintf (or a run of unchecked ones); checked says       *)
(* whether the code looks at the error it returns.  "return" and "panic"   *)
(* items end the emission where the code returns early or dereferences a   *)
(* nil file.                                                               *)

Item(k, checked, path) ==
    [k |-> k, checked |-> checked, path |-> path, name |-> 0, lit |-> <<>>,
     size |-> 0, time |-> <<>>, entries |-> <<>>, fault |-> ""]

\* e.open: files whose Open fails; e.read: <<path, n>>, a read error after n bytes
EmitOracles(t, tc) ==
    LET F == {tc[i].path : i \in {j \in 1..Len(tc) : ~tc[j].isDir}}
    IN  {e \in [open : SUBSET F,
                read : SUBSET {x \in F \X (0..MaxSize) : x[2] <= Len(t[x[1]].content)}] :
            /\ Cardinality(e.open) + Cardinality(e.read) <= MaxFaults
            /\ \A x, y \in e.read : x[1] = y[1] => x = y}

NoEmitFaults == [open |-> {}, read |-> {}]

\* what io.Copy(gz, f) hands to the compressor before f.Read fails, if it does
CopiedBytes(t, e, path) ==
    IF \E x \in e.read : x[1] = path
    THEN SubSeq(t[path].content, 1, (CHOOSE x \in e.read : x[1] = path)[2])
    ELSE t[path].content

\* writeAssets, first loop, case *dir
DirWrites(a) ==
    LET m == MarshalText(a.modTime)
    IN  <<Item("dirHead", TRUE, a.path),
          [Item("dirName", FALSE, a.path) EXCEPT !.name = a.name]>>
        \o (IF m.err # "nil"
            THEN <<Item("return", FALSE, a.path)>>
            ELSE <<[Item("dirTime", FALSE, a.path) EXCEPT !.time = m.text]>>)

\* writeAssets, first loop, case *compressedFile.  The error of Open is
\* dropped; a failed Open of an http.FileSystem returns a nil File, and
\* io.Copy and f.Close() on it panic.  The error of io.Copy is dropped too.
FileWrites(t, e, a) ==
    LET m == MarshalText(a.modTime)
    IN  <<Item("fileHead", TRUE, a.path),
          [Item("fileName", FALSE, a.path) EXCEPT !.name = a.name]>>
        \o (IF a.path \in e.open
            THEN <<[Item("panic", FALSE, a.path) EXCEPT !.fault = "open"]>>
            ELSE <<[Item("fileContent", FALSE, a.path) EXCEPT
                       !.lit = StringWriterWrite(Gzip(CopiedBytes(t, e, a.path))),
                       !.size = a.uncompressedSize,
                       !.fault = IF \E x \in e.read : x[1] = a.path
                                 THEN "read" ELSE ""]>>
                 \o (IF m.err # "nil"
                     THEN <<Item("return", FALSE, a.path)>>
                     ELSE <<[Item("fileTime", FALSE, a.path) EXCEPT !.time = m.text]>>))

RECURSIVE Pass1(_, _, _, _)
Pass1(t, e, tc, i) ==
    IF i > Len(tc) THEN <<>>
    ELSE (IF tc[i].isDir THEN DirWrites(tc[i]) ELSE FileWrites(t, e, tc[i]))
             \o Pass1(t, e, tc, i + 1)

\* writeAssets, second loop: assetsFS[path].(*dir).entries = {assetsFS[entry], ...}
RECURSIVE Pass2(_, _)
Pass2(tc, i) ==
    IF i > Len(tc) THEN <<>>
    ELSE (IF tc[i].isDir
          THEN <<[Item("entries", FALSE, tc[i].path) EXCEPT !.entries = tc[i].entries]>>
          ELSE <<>>)
             \o Pass2(tc, i + 1)

writeAssets(t, e, tc) ==
    <<Item("import", TRUE, Root), Item("mapOpen", TRUE, Root)>>
        \o Pass1(t, e, tc, 1)
        \o <<Item("mapClose", TRUE, Root)>>
        \o Pass2(tc, 1)
        \o <<Item("returnFS", TRUE, Root)>>

writeVFS == <<Item("vfs", TRUE, Root)>>

\* every write of Translate after os.Create
Writes(c, t, e, tc) ==
    <<Item("disclaimer", TRUE, Root)>>
        \o (IF c.tags # "" THEN <<Item("tags", TRUE, Root)>> ELSE <<>>)
        \o <<Item("package", TRUE, Root)>>
        \o writeAssets(t, e, tc)
        \o writeVFS

\* Run the writes; the write to the file first fails at item failAt (0: never;
\* beyond the last item run: at the deferred Flush).  bufio keeps the error:
\* every later write returns it, and only a checked write lets the code see it.
RECURSIVE RunWrites(_, _, _)
RunWrites(ws, i, failAt) ==
    IF i > Len(ws) THEN [outcome |-> "done", err |-> "nil", n |-> Len(ws)]
    ELSE IF ws[i].k = "panic" THEN [outcome |-> "panicked", err |-> "nil", n |-> i - 1]
    ELSE IF ws[i].k = "return" THEN [outcome |-> "done", err |-> "marshal", n |-> i - 1]
    ELSE IF failAt # 0 /\ i >= failAt /\ ws[i].checked
    THEN [outcome |-> "done", err |-> "write", n |-> i - 1]
    ELSE RunWrites(ws, i + 1, failAt)

\* the emission as a whole, deferred buf.Flush() and f.Close() included
Emit(c, t, e, tc, failAt) ==
    LET ws == Writes(c, t, e, tc)
        r == RunWrites(ws, 1, failAt)
        run == SubSeq(ws, 1, r.n)
        writeFails == failAt # 0 /\ (r.err = "write" \/ failAt <= r.n)
        flushFails == failAt # 0 /\ ~writeFails
        onDisk == IF failAt = 0 THEN run
                  ELSE IF flushFails THEN SubSeq(run, 1, r.n - 1)
                  ELSE SubSeq(run, 1, failAt - 1)
    IN  [outcome |-> r.outcome,
         err |-> r.err,
         items |-> onDisk,
         faults |-> ({run[i].fault : i \in 1..Len(run)} \ {""})
                    \cup (IF r.outcome = "panicked" THEN {"open"} ELSE {})
                    \cup (IF writeFails THEN {"write"} ELSE {})
                    \cup (IF flushFails THEN {"flush"} ELSE {})]

----------------------------------------------------------------------------
(* The generated program: initialisation of AssetsFS from the emitted file *)

ItemOf(items, k, path) ==
    items[CHOOSE i \in 1..Len(items) : items[i].k = k /\ items[i].path = path]

\* the map literal of "assetsFS := assetsFS{ ... }"
MapLiteral(items) ==
    LET D == {items[i].path : i \in {j \in 1..Len(items) : items[j].k = "dirHead"}}
        F == {items[i].path : i \in {j \in 1..Len(items) : items[j].k = "fileHead"}}
    IN  [p \in D \cup F |->
            IF p \in D
            THEN [isDir |-> TRUE,
                  name |-> ItemOf(items, "dirName", p).name,
                  compressedContent |-> <<>>,
                  uncompressedSize |-> 0,
                  modTime |-> mustUnmarshalTextTime(ItemOf(items, "dirTime", p).time),
                  entries |-> <<>>]
            ELSE [isDir |-> FALSE,
                  name |-> ItemOf(items, "fileName", p).name,
                  compressedContent |-> Unquote(ItemOf(items, "fileContent", p).lit),
                  uncompressedSize |-> ItemOf(items, "fileContent", p).size,
                  modTime |-> mustUnmarshalTextTime(ItemOf(items, "fileTime", p).time),
                  entries |-> <<>>]]

\* the func() assetsFS { ... }() that initialises AssetsFS.  A file cut short
\* is no Go program; assetsFS[entry].(os.FileInfo) panics on a missing entry.
Load(items) ==
    IF items = <<>> \/ items[Len(items)].k # "vfs"
    THEN [status |-> "noBuild", fs |-> <<>>]
    ELSE LET m == MapLiteral(items)
         IN  IF \E p \in DOMAIN m :
                    m[p].isDir /\ \E x \in Range(ItemOf(items, "entries", p).entries) :
                                     x \notin DOMAIN m
             THEN [status |-> "initPanic", fs |-> <<>>]
             ELSE [status |-> "ready",
                   fs |-> [p \in DOMAIN m |->
                              IF m[p].isDir
                              THEN [m[p] EXCEPT !.entries =
                                       ItemOf(items, "entries", p).entries]
                              ELSE m[p]]]

----------------------------------------------------------------------------
(* The generated program: assetsFS.Open and the two handle types *)

NoHandle == [kind |-> "none", path |-> <<>>, pos |-> 0, got |-> <<>>]

\* the outcome of a call: kind is "ok" (a nil error), "err" (a non-nil error
\* value) or "panic"; on is the kind of handle it was made on; handle is the
\* handle after the call (for Open, the one returned); arg is len(p) of a
\* Read and count of a Readdir
Result(op, kind) ==
    [op |-> op, kind |-> kind, err |-> "nil", on |-> "none",
     path |-> <<>>, handle |-> NoHandle, arg |-> 0, n |-> 0, data |-> <<>>,
     infos |-> <<>>]

NoResult == Result("none", "ok")

\* os.FileInfo as the two record types implement it
FileInfo(f) ==
    [name |-> f.name,
     size |-> IF f.isDir THEN 0 ELSE f.uncompressedSize,
     mode |-> IF f.isDir THEN "drwxr-xr-x" ELSE "-r--r--r--",
     modTime |-> f.modTime,
     isDir |-> f.isDir]

\* seeded fault: the lookup's ok is not tested and f.(http.File) panics on nil
OpenMissingPanics(path) ==
    [Result("Open", "panic") EXCEPT !.path = path]

\* Open, "if !ok": the path is no key of the map
OpenMissing(path) ==
    [Result("Open", "err") EXCEPT !.err = "ErrNotExist", !.path = path]

\* Open of a *compressedFile: a gzip reader of its own over the stored bytes
OpenFile(fs, path) ==
    IF ~GzipHeaderOK(fs[path].compressedContent)
    THEN [Result("Open", "panic") EXCEPT !.path = path]
    ELSE [Result("Open", "ok") EXCEPT !.path = path,
             !.handle = [kind |-> "file", path |-> path, pos |-> 0, got |-> <<>>]]

\* Open of a *dir: f.(http.File), the record itself
OpenDir(fs, path) ==
    [Result("Open", "ok") EXCEPT !.path = path,
        !.handle = [kind |-> "dir", path |-> path, pos |-> 0, got |-> <<>>]]

\* func (fs assetsFS) Open(path string) (http.File, error)
Open(fs, path) ==
    IF path \notin DOMAIN fs THEN OpenMissing(path)
    ELSE IF ~fs[path].isDir THEN OpenFile(fs, path)
    ELSE OpenDir(fs, path)

Min(a, b) == IF a < b THEN a ELSE b

\* func (f *compressedFileInstance) Read(p []byte): f.gr.Read(p), len(p) = n
FileRead(fs, hd, n) ==
    LET c == fs[hd.path].compressedContent
        d == GzipData(c)
        out == SubSeq(d, hd.pos + 1, Min(hd.pos + n, Len(d)))
    IN  IF hd.pos < Len(d)
        THEN [Result("Read", "ok") EXCEPT !.arg = n, !.n = Len(out), !.data = out,
                 !.handle = [hd EXCEPT !.pos = @ + Len(out), !.got = @ \o out]]
        ELSE IF GzipTrailerOK(c)
        THEN [Result("Read", "err") EXCEPT !.arg = n, !.err = "EOF", !.handle = hd]
        ELSE [Result("Read", "err") EXCEPT !.arg = n, !.err = "gzip", !.handle = hd]

\* seeded fault: a Seek that repositions the stream
FileSeekMoves(hd, offset, whence) ==
    [Result("Seek", "ok") EXCEPT
        !.handle = [hd EXCEPT !.pos = IF whence = 0 /\ offset >= 0 THEN 0 ELSE @,
                              !.got = IF whence = 0 /\ offset >= 0 THEN <<>> ELSE @]]

\* func (f *compressedFileInstance) Seek(offset int64, whence int)
FileSeek(hd, offset, whence) ==
    [Result("Seek", "panic") EXCEPT !.handle = hd]

\* func (f *compressedFile) Readdir(count int)
FileReaddir(hd, count) ==
    [Result("Readdir", "err") EXCEPT !.arg = count,
        !.err = "cannot Readdir from file", !.handle = hd]

\* seeded fault: Read on a directory panics
DirReadPanics(hd, n) ==
    [Result("Read", "panic") EXCEPT !.arg = n, !.handle = hd]

\* func (d *dir) Read([]byte)
DirRead(hd, n) ==
    [Result("Read", "err") EXCEPT !.arg = n,
        !.err = "cannot Read from directory", !.handle = hd]

\* func (d *dir) Seek(offset int64, whence int)
DirSeek(hd, offset, whence) ==
    [Result("Seek", "err") EXCEPT !.err = "cannot Seek in directory", !.handle = hd]

\* func (d *dir) Readdir(count int)
DirReaddir(fs, hd, count) ==
    IF count # 0
    THEN [Result("Readdir", "panic") EXCEPT !.arg = count, !.handle = hd]
    ELSE [Result("Readdir", "ok") EXCEPT !.arg = count, !.handle = hd,
             !.infos = [i \in 1..Len(fs[hd.path].entries) |->
                           FileInfo(fs[fs[hd.path].entries[i]])]]

\* Stat of either handle type: the record itself as os.FileInfo
Stat(fs, hd) ==
    [Result("Stat", "ok") EXCEPT !.handle = hd, !.infos = <<FileInfo(fs[hd.path])>>]

\* Open, then Read until it returns no more bytes: what a reader of path gets
RECURSIVE ReadToEnd(_, _)
ReadToEnd(fs, hd) ==
    LET r == FileRead(fs, hd, MaxRead)
    IN  IF r.kind = "ok" THEN ReadToEnd(fs, r.handle) ELSE [r EXCEPT !.data = hd.got]

----------------------------------------------------------------------------
(* Build time: Translate, one action per stage *)

Cfgs == {[package |-> "", tags |-> ""],
         [package |-> "main", tags |-> ""],
         [package |-> "main", tags |-> "dev"]}

NoFile == [exists |-> FALSE, items |-> <<>>]

Init ==
    /\ cfg \in Cfgs
    /\ tree \in Trees
    /\ pc = "validate"
    /\ toc = <<>>
    /\ err = "nil"
    /\ faults = {}
    /\ outFile = NoFile
    /\ assetsFS = <<>>
    /\ handles = {}
    /\ res = NoResult

\* c.validate(): a configuration without a package name is refused
validate(c) == IF c.package = "" THEN "config" ELSE "nil"

Validate ==
    /\ pc = "validate"
    /\ err' = validate(cfg)
    /\ pc' = IF validate(cfg) # "nil" THEN "done" ELSE "walk"
    /\ UNCHANGED <<cfg, tree, toc, faults, outFile, assetsFS, handles, res>>

FindFiles ==
    /\ pc = "walk"
    /\ \E o \in WalkOracles(tree) :
          LET r == findFiles(tree, o)
          IN  /\ toc' = r.toc
              /\ faults' = faults \cup r.faults
              /\ err' = r.err
              /\ pc' = IF r.err # "nil" THEN "done" ELSE "create"
    /\ UNCHANGED <<cfg, tree, outFile, assetsFS, handles, res>>

\* os.Create(c.Output)
CreateOutput ==
    /\ pc = "create"
    /\ \E ok \in BOOLEAN :
          IF ok
          THEN /\ outFile' = [exists |-> TRUE, items |-> <<>>]
               /\ pc' = "emit"
               /\ UNCHANGED <<err, faults>>
          ELSE /\ err' = "create"
               /\ pc' = "done"
               /\ faults' = faults \cup {"create"}
               /\ UNCHANGED outFile
    /\ UNCHANGED <<cfg, tree, toc, assetsFS, handles, res>>

\* the writes, then the deferred buf.Flush() and f.Close()
WriteOutput ==
    /\ pc = "emit"
    /\ \E e \in EmitOracles(tree, toc) :
          \E failAt \in 0..(Len(Writes(cfg, tree, e, toc)) + 1) :
              LET r == Emit(cfg, tree, e, toc, failAt)
              IN  /\ outFile' = [exists |-> TRUE, items |-> r.items]
                  /\ err' = r.err
                  /\ faults' = faults \cup r.faults
                  /\ pc' = r.outcome
    /\ UNCHANGED <<cfg, tree, toc, assetsFS, handles, res>>

\* the program built from a generated file starts
LoadProgram ==
    /\ pc = "done"
    /\ err = "nil"
    /\ LET l == Load(outFile.items)
       IN  /\ pc' = l.status
           /\ assetsFS' = l.fs
    /\ UNCHANGED <<cfg, tree, toc, err, faults, outFile, handles, res>>

Next == Validate \/ FindFiles \/ CreateOutput \/ WriteOutput \/ LoadProgram

Spec == Init /\ [][Next]_vars

----------------------------------------------------------------------------
(* Run time: calls on the generated filesystem *)

\* every map AssetsFS that a Translate returning nil leaves a program with
GeneratedFS ==
    UNION {UNION {UNION {
        LET w == findFiles(t, o)
        IN  IF w.err # "nil" THEN {}
            ELSE UNION {LET r == Emit(c, t, e, w.toc, 0)
                            l == Load(r.items)
                        IN  IF r.outcome = "done" /\ r.err = "nil" /\ l.status = "ready"
                            THEN {l.fs} ELSE {}
                        : e \in EmitOracles(t, w.toc)}
        : o \in WalkOracles(t)} : t \in Trees} : c \in Cfgs \ {[package |-> "", tags |-> ""]}}

InitRT ==
    /\ cfg = [package |-> "main", tags |-> ""]
    /\ tree = <<>>
    /\ pc = "ready"
    /\ toc = <<>>
    /\ err = "nil"
    /\ faults = {}
    /\ outFile = NoFile
    /\ assetsFS \in GeneratedFS
    /\ handles = {}
    /\ res = NoResult

OpenPaths ==
    DOMAIN assetsFS \cup {Join(p, k) : p \in DOMAIN assetsFS \cup {Root}, k \in {1, 2}}

ReadSizes == 1..MaxRead
Offsets == {-1, 0, 1}
Whences == {0, 1, 2}
Counts == {-1, 0, 1}

build == <<cfg, tree, pc, toc, err, faults, outFile>>

\* handles holds the state of every open handle; two handles in the same
\* state are one element (a directory handle is the *dir record itself)
OpenCall ==
    /\ pc = "ready"
    /\ \E path \in OpenPaths :
          LET r == Open(assetsFS, path)
          IN  /\ r.kind = "ok" => Cardinality(handles \cup {r.handle}) <= MaxHandles
              /\ res' = [r EXCEPT !.on = r.handle.kind]
              /\ handles' = IF r.kind = "ok" THEN handles \cup {r.handle} ELSE handles
    /\ UNCHANGED <<build, assetsFS>>

\* seeded fault: the stream is kept in the shared *compressedFile, so a call
\* on hd moves every handle of the same file
UpdateInstanceShared(hs, hd, r) ==
    {IF x.kind = "file" /\ x.path = hd.path /\ r.handle # NoHandle
     THEN [x EXCEPT !.pos = r.handle.pos] ELSE x : x \in (hs \ {hd})}
        \cup ({r.handle} \ {NoHandle})

\* compressedFileInstance: the stream gr belongs to the one instance, so a
\* call on hd leaves every other handle as it was
UpdateInstance(hs, hd, r) == (hs \ {hd}) \cup ({r.handle} \ {NoHandle})

\* the call's result is recorded and the handle takes its new state
Return(hd, r) ==
    /\ res' = [r EXCEPT !.on = hd.kind, !.path = hd.path]
    /\ handles' = UpdateInstance(handles, hd, r)
    /\ UNCHANGED <<build, assetsFS>>

ReadCall ==
    /\ pc = "ready"
    /\ \E hd \in handles, n \in ReadSizes :
          Return(hd, IF hd.kind = "file"
                     THEN FileRead(assetsFS, hd, n)
                     ELSE DirRead(hd, n))

SeekCall ==
    /\ pc = "ready"
    /\ \E hd \in handles, offset \in Offsets, whence \in Whences :
          Return(hd, IF hd.kind = "file"
                     THEN FileSeek(hd, offset, whence)
                     ELSE DirSeek(hd, offset, whence))

ReaddirCall ==
    /\ pc = "ready"
    /\ \E hd \in handles, count \in Counts :
          Return(hd, IF hd.kind = "file"
                     THEN FileReaddir(hd, count)
                     ELSE DirReaddir(assetsFS, hd, count))

StatCall ==
    /\ pc = "ready"
    /\ \E hd \in handles :
          Return(hd, Stat(assetsFS, hd))

\* Close of either handle type; the caller drops the handle
CloseCall ==
    /\ pc = "ready"
    /\ \E hd \in handles :
          Return(hd, [Result("Close", "ok") EXCEPT !.handle = NoHandle])

NextRT == OpenCall \/ ReadCall \/ SeekCall \/ ReaddirCall \/ StatCall \/ CloseCall

SpecRT == InitRT /\ [][NextRT]_vars

----------------------------------------------------------------------------
(* Properties of Translate (under Spec) *)

TocPaths == {toc[i].path : i \in 1..Len(toc)}

\* findFiles has returned nil
FindFilesSucceeded == pc \notin {"validate", "walk"} /\ err \notin {"config", "walk"}

\* Translate has returned nil and the program built from its output was started
Started == pc \in {"ready", "initPanic", "noBuild"}

\* what a reader gets from Open(path) followed by Read to the end
ReadAll(path) == ReadToEnd(assetsFS, Open(assetsFS, path).handle)

\* C1: after Translate returns nil, every file F of the source tree can be
\* opened in the generated filesystem, reading it to the end yields F's
\* bytes, and their number is the Size() of its Stat().
C1_RoundTrip ==
    Started =>
        \A f \in Files(tree) :
            /\ pc = "ready"
            /\ f \in DOMAIN assetsFS
            /\ Open(assetsFS, f).kind = "ok"
            /\ ReadAll(f).err = "EOF"
            /\ ReadAll(f).data = tree[f].content
            /\ Len(ReadAll(f).data) = Stat(assetsFS, Open(assetsFS, f).handle).infos[1].size

\* C2: for every directory D of the source tree, Readdir(0) on D's handle
\* returns the metadata of exactly D's children, in ascending order of name
\* (nothing, and no error, for a directory without children).
C2_DirectoryCompleteness ==
    Started =>
        /\ pc = "ready"
        /\ \A d \in Dirs(tree) :
              /\ d \in DOMAIN assetsFS
              /\ LET r == DirReaddir(assetsFS, Open(assetsFS, d).handle, 0)
                 IN  /\ r.kind = "ok"
                     /\ Len(r.infos) = Cardinality(Children(tree, d))
                     /\ {r.infos[i].name : i \in 1..Len(r.infos)}
                            = {Base(c) : c \in Children(tree, d)}
                     /\ \A i \in 1..Len(r.infos) : \A j \in 1..Len(r.infos) :
                            i < j => r.infos[i].name < r.infos[j].name
                     /\ \A i \in 1..Len(r.infos) :
                            r.infos[i].isDir = tree[Join(d, r.infos[i].name)].isDir

\* C3: after findFiles returns nil, every path in the entries of a directory
\* of the TOC is the path of an asset of the TOC, also when the stat of some
\* entry failed and the entry was skipped.
C3_ReferentialIntegrity ==
    FindFilesSucceeded =>
        \A i \in 1..Len(toc) :
            toc[i].isDir => Range(toc[i].entries) \subseteq TocPaths

\* C4: when a source file could not be opened or read to the end, or a write
\* to the output (the final Flush included) failed, Translate returns a
\* non-nil error.
C4_NoPartialSuccess ==
    (pc \in {"done", "panicked"} /\ faults \cap {"open", "read", "write", "flush"} # {})
        => (pc = "done" /\ err # "nil")

\* C5: when Translate returns a non-nil error, no output file remains.
C5_NoOutputRetained ==
    (pc = "done" /\ err # "nil") => ~outFile.exists

\* C10: when the listing of a directory fails during the walk, in the
\* callback or in the walker, findFiles returns an error and Translate fails
\* before it creates the output.
C10_ListingFailureIsFatal ==
    (pc # "walk" /\ faults \cap {"cbList", "wkList"} # {})
        => (pc = "done" /\ err = "walk" /\ ~outFile.exists)

(* What holds of Translate when the failures above are kept out *)

\* without any I/O failure the program starts, every file round-trips and
\* every directory lists its children
FaultFreeRunIsFaithful ==
    (Started /\ faults = {}) =>
        /\ pc = "ready"
        /\ DOMAIN assetsFS = DOMAIN tree
        /\ \A f \in Files(tree) :
              /\ ReadAll(f).data = tree[f].content
              /\ assetsFS[f].uncompressedSize = Len(tree[f].content)
        /\ \A d \in Dirs(tree) :
              Range(assetsFS[d].entries) = Children(tree, d)

\* the TOC is closed under entries unless a stat or walker listing failed
IntegrityWithoutSkips ==
    (FindFilesSucceeded /\ faults \cap {"stat", "wkList"} = {})
        => \A i \in 1..Len(toc) : toc[i].isDir => Range(toc[i].entries) \subseteq TocPaths

\* a program whose TOC is not closed under entries panics when it starts
BrokenIntegrityPanics ==
    (Started /\ ~(\A i \in 1..Len(toc) :
                    toc[i].isDir => Range(toc[i].entries) \subseteq TocPaths))
        => pc \in {"initPanic", "noBuild"}

\* a program that starts lists, for every directory of its map, exactly the
\* children the directory had when it was walked
StartedProgramListsChildren ==
    pc = "ready" =>
        \A d \in DOMAIN assetsFS :
            assetsFS[d].isDir =>
                /\ d \in Dirs(tree)
                /\ Range(assetsFS[d].entries) = Children(tree, d)
                /\ Range(assetsFS[d].entries) \subseteq DOMAIN assetsFS

\* errors before os.Create leave no file; a failed listing in the callback
\* is fatal
EarlyErrorsLeaveNoFile ==
    /\ (pc = "done" /\ err \in {"config", "walk", "create"}) => ~outFile.exists
    /\ "cbList" \in faults => (pc = "done" /\ err = "walk")

----------------------------------------------------------------------------
(* Properties of the generated filesystem (under SpecRT) *)

Content(path) == GzipData(assetsFS[path].compressedContent)

OnWrongKind ==
    \/ res.op = "Read" /\ res.on = "dir"
    \/ res.op = "Readdir" /\ res.on = "file"

\* C6, as claimed: Read on a directory handle and Readdir on a file handle
\* panic.
C6_WrongKindPanics == OnWrongKind => res.kind = "panic"

\* C6, amended: Read on a directory handle and Readdir on a file handle return
\* a non-nil error value with no bytes and no entries, and do not panic; Seek
\* on a file handle and Readdir with a nonzero count on a directory handle
\* panic.
C6_WrongKindReturnsError ==
    /\ OnWrongKind =>
          res.kind = "err" /\ res.err # "nil" /\ res.n = 0 /\ res.infos = <<>>
    /\ (res.op = "Seek" /\ res.on = "file") => res.kind = "panic"
    /\ (res.op = "Readdir" /\ res.on = "dir" /\ res.arg # 0) => res.kind = "panic"

C6_Witness ==
    /\ res.op = "Read" /\ res.on = "dir" /\ res.kind = "err"
    /\ \E hd \in handles : hd.kind = "file"

\* C7: every file handle has been delivered the bytes of its file in order
\* from the start, whatever was done with the other handles; Read reports the
\* end only when all of them were delivered; a step changes no handle but the
\* one it is made on, a handle just opened is at the start, and no step
\* changes the map.
C7_HandleIndependence ==
    [][/\ assetsFS' = assetsFS
       /\ \A hd \in handles' :
             hd.kind = "file" =>
                 /\ hd.got = SubSeq(Content(hd.path), 1, hd.pos)
                 /\ hd.pos <= Len(Content(hd.path))
       /\ (res'.op = "Read" /\ res'.on = "file" /\ res'.err = "EOF")
             => res'.handle.got = Content(res'.path)
       /\ (res'.op = "Open" /\ res'.kind = "ok" /\ res'.on = "file")
             => res'.handle.pos = 0 /\ res'.handle.got = <<>>
       /\ Cardinality(handles \ handles') <= 1
       /\ Cardinality(handles' \ handles) <= 1]_vars

C7_Witness ==
    \E a \in handles : \E b \in handles :
        /\ a.kind = "file" /\ b.kind = "file" /\ a.path = b.path
        /\ Len(Content(a.path)) >= 2
        /\ a.pos = 1
        /\ b.got = Content(b.path)
        /\ res.op = "Read" /\ res.err = "EOF"

\* C8: Open of a path that is no key of the map returns os.ErrNotExist and
\* no handle and does not panic; Open of a key returns no error, a file
\* handle at the start of the file for a file record and the directory
\* record itself for a directory record.
C8_OpenContract ==
    res.op = "Open" =>
        IF res.path \notin DOMAIN assetsFS
        THEN res.kind = "err" /\ res.err = "ErrNotExist" /\ res.handle = NoHandle
        ELSE /\ res.kind = "ok" /\ res.err = "nil"
             /\ res.handle \in handles
             /\ res.handle.path = res.path
             /\ res.handle.kind = IF assetsFS[res.path].isDir THEN "dir" ELSE "file"
             /\ res.handle.pos = 0

C8_Witness ==
    /\ res.op = "Open" /\ res.path \notin DOMAIN assetsFS /\ res.kind = "err"
    /\ DOMAIN assetsFS # {}

\* C9: Seek on a file handle panics, whatever the file, the offset, the
\* whence and the position of the handle, and leaves every handle as it was.
C9_SeekAlwaysPanics ==
    [][(res'.op = "Seek" /\ res'.on = "file")
          => (res'.kind = "panic" /\ handles' = handles /\ res'.handle \in handles)]_vars

C9_Witness ==
    /\ res.op = "Seek" /\ res.on = "file" /\ res.kind = "panic"
    /\ res.handle \in handles
    /\ 0 < res.handle.pos /\ res.handle.pos < Len(Content(res.path))

====
